---- MODULE Spec2Model ----
(***************************************************************************)
(* Document ingestion pipeline of the Research-Paper-Summarizer backend:   *)
(* upload (routers/upload.py + services/file_service.py), the background   *)
(* extraction task, PATCH update, soft delete, and the document store      *)
(* (database/operations.py, models/document.py).                           *)
(*                                                                         *)
(* Pydantic models are modelled by what they do to a payload: a model      *)
(* keeps the keys it declares and silently drops every other key (the      *)
(* default `extra = ignore`), and construction raises ValidationError (a   *)
(* ValueError) when a required field is missing or a validator rejects.    *)
(***************************************************************************)
EXTENDS Integers, Naturals, Sequences, FiniteSets, TLC

VARIABLES
    files,          \* the upload folder: stored path -> blob written there
    documents,      \* documents collection: document id -> record
    tasks,          \* BackgroundTasks: document id -> state of its task
    users,          \* users collection: user id -> usage counters
    now,            \* datetime.utcnow(), in whole seconds
    uploads,        \* number of upload requests handled so far
    deletes,        \* number of successful soft deletes so far
    ever_ready,     \* history: ids whose status has been READY
    response,       \* the last HTTP response sent
    probe,          \* the last direct call of a FileService helper
    crud_users,     \* users collection behind AuthManager's crud
    crud_sessions,  \* sessions collection behind AuthManager's crud
    accounts,       \* users collection of UserOperations: the credentials
    registering,    \* register_user requests in flight
    request_counts, \* main.py: the rate limiter's table, per client IP
    current_time,   \* time.time() as the rate limiter reads it
    forwarded       \* history: requests handed to call_next, per IP and time

vars == <<files, documents, tasks, users, now, uploads, deletes,
          ever_ready, response, probe, crud_users, crud_sessions, accounts,
          registering, request_counts, current_time, forwarded>>

\* the state of registration and login, and of the rate limiter
login_vars == <<crud_users, crud_sessions, accounts, registering>>

limit_vars == <<request_counts, current_time, forwarded>>

\* the state of the document pipeline
document_vars == <<files, documents, tasks, users, uploads, deletes,
                   ever_ready>>

-----------------------------------------------------------------------------
(* Bounds of the model.                                                    *)

MaxTime == 2

MaxUploads == 1

MaxDeletes == 1

-----------------------------------------------------------------------------
(* Program constants.                                                      *)

None == "None"

NoDate == 0

UPLOADING == "uploading"

PROCESSING == "processing"

READY == "ready"

FAILED == "failed"

DELETED == "deleted"

DocumentStatus == {UPLOADING, PROCESSING, READY, FAILED, DELETED}

max_upload_size == 200 * 1024 * 1024

validator_max_size == 10 * 1024 * 1024

allowed_extensions ==
    { <<".", "p", "d", "f">>, <<".", "d", "o", "c", "x">>, <<".", "t", "x", "t">> }

DocumentType == { <<"p", "d", "f">>, <<"d", "o", "c", "x">>, <<"t", "x", "t">> }

\* Fields the pydantic models declare.
DocumentCreateFields ==
    {"filename", "file_type", "file_size", "content_hash", "user_id",
     "content", "file_path"}

DocumentInDBRequired ==
    {"filename", "file_type", "file_size", "content_hash", "user_id",
     "file_path", "original_filename"}

DocumentUpdateFields == {"metadata", "status", "content", "tags", "notes"}

-----------------------------------------------------------------------------
(* Users, as get_current_user yields them.                                 *)

Users == {"alice", "bob", "root"}

role == [u \in Users |-> IF u = "root" THEN "admin" ELSE "user"]

\* Every operation addresses one record by its id and touches no other, so
\* one record shows each of them.
DocIds == {"d1"}

-----------------------------------------------------------------------------
(* Strings the code inspects are sequences of one-character strings.       *)

Lower(c) ==
    CASE c = "A" -> "a" [] c = "D" -> "d" [] c = "F" -> "f"
      [] c = "P" -> "p" [] c = "T" -> "t" [] c = "X" -> "x"
      [] OTHER -> c

lower(s) == [i \in 1..Len(s) |-> Lower(s[i])]

\* str.rfind('.') on a 1-based sequence; 0 when there is no dot.
rfind_dot(s) ==
    LET dots == {i \in 1..Len(s) : s[i] = "."}
    IN  IF dots = {} THEN 0 ELSE CHOOSE i \in dots : \A j \in dots : j <= i

\* pathlib.PurePath.suffix: the text from the last dot of the name, unless
\* the dot leads or ends the name.
suffix(filename) ==
    LET i == rfind_dot(filename)
    IN  IF 1 < i /\ i < Len(filename)
        THEN SubSeq(filename, i, Len(filename))
        ELSE <<>>

Restrict(f, S) == [k \in (DOMAIN f) \cap S |-> f[k]]

-----------------------------------------------------------------------------
(* Uploaded bytes.  A blob is a byte string of length len; body tells what *)
(* the extractors make of it.  sha256 is injective on the blobs used       *)
(* (collision resistance); a digest is <<first 8 hex characters, rest>>.   *)

Blobs ==
    { [len |-> 1024, body |-> "text"],
      [len |-> 1024, body |-> "garbage"],
      [len |-> validator_max_size, body |-> "text"],
      [len |-> validator_max_size + 1, body |-> "text"],
      [len |-> max_upload_size, body |-> "text"],
      [len |-> max_upload_size + 1, body |-> "text"] }

sha256(file_content) == << <<file_content.body, file_content.len>>, "tail" >>

Filenames ==
    { <<"a", ".", "p", "d", "f">>,
      <<"A", ".", "T", "X", "T">>,
      <<"a", ".", "d", "o", "c", "x">>,
      <<"a", ".", "e", "x", "e">>,
      <<"a", ".", "p", "d", "f", ".", "e", "x", "e">>,
      <<"a", "p", "d", "f">>,
      <<".", "p", "d", "f">>,
      <<"a", ".", "p", "d", "f", ".">> }

-----------------------------------------------------------------------------
(* FileService.save_uploaded_file: validate, hash, name, write.            *)
(* Result: exc (None when it returns), the folder afterwards, and the      *)
(* returned triple.  io_ok is whether the disk write succeeds.             *)

\* save_uploaded_file with the type check moved behind the write.
save_late_check(fs, t, file_content, filename, user_id, io_ok) ==
    LET file_ext      == lower(suffix(filename))
        content_hash  == sha256(file_content)
        safe_filename == <<t, content_hash[1], filename>>
        file_path     == [folder |-> user_id, name |-> safe_filename]
        unchanged     == [files |-> fs, file_path |-> None,
                          content_hash |-> None, doc_type |-> None]
        written       == (file_path :> file_content) @@ fs
    IN  IF file_content.len > max_upload_size
        THEN [exc |-> "ValueError: File size exceeds maximum"] @@ unchanged
        ELSE IF ~io_ok
        THEN [exc |-> "OSError"] @@ unchanged
        ELSE IF file_ext \notin allowed_extensions
        THEN [exc |-> "ValueError: File type not allowed",
              files |-> written] @@ unchanged
        ELSE [exc |-> None,
              files |-> written,
              file_path |-> file_path,
              content_hash |-> content_hash,
              doc_type |-> Tail(file_ext)]

save_uploaded_file(fs, t, file_content, filename, user_id, io_ok) ==
    LET file_ext      == lower(suffix(filename))
        content_hash  == sha256(file_content)
        safe_filename == <<t, content_hash[1], filename>>
        file_path     == [folder |-> user_id, name |-> safe_filename]
        unchanged     == [files |-> fs, file_path |-> None,
                          content_hash |-> None, doc_type |-> None]
    IN  IF file_ext \notin allowed_extensions
        THEN [exc |-> "ValueError: File type not allowed"] @@ unchanged
        ELSE IF file_content.len > max_upload_size
        THEN [exc |-> "ValueError: File size exceeds maximum"] @@ unchanged
        ELSE IF ~io_ok
        THEN [exc |-> "OSError"] @@ unchanged
        ELSE [exc |-> None,
              files |-> (file_path :> file_content) @@ fs,
              file_path |-> file_path,
              content_hash |-> content_hash,
              doc_type |-> Tail(file_ext)]

-----------------------------------------------------------------------------
(* models/document.py                                                      *)

\* DocumentBase.validate_file_size
validate_file_size(v) == v <= validator_max_size

\* Optional[int] left unset
NoCount == 0 - 1

\* DocumentMetadata(): every field at its default.
DocumentMetadata ==
    [title |-> None, abstract |-> None, keywords |-> <<>>,
     sections |-> <<>>, total_pages |-> NoCount,
     total_words |-> NoCount, main_topics |-> <<>>, key_findings |-> <<>>]

\* DocumentCreate(**kwargs).dict(): undeclared keys are dropped, the
\* file_size validator runs, content defaults to None.
DocumentCreate(kwargs) ==
    IF ~validate_file_size(kwargs.file_size)
    THEN [exc |-> "ValueError: File size exceeds maximum allowed size",
          data |-> <<>>]
    ELSE [exc |-> None,
          data |-> Restrict(kwargs, DocumentCreateFields)
                   @@ [content |-> None]]

\* DocumentInDB(**data).dict(): every required field must be supplied; the
\* other fields take their defaults.
DocumentInDB(data) ==
    IF ~(DocumentInDBRequired \subseteq DOMAIN data)
    THEN [exc |-> "ValidationError: field required", record |-> <<>>]
    ELSE [exc |-> None,
          record |-> data @@ [content |-> None,
                              status |-> UPLOADING,
                              processed_date |-> NoDate,
                              error_message |-> None,
                              notes |-> None,
                              metadata |-> DocumentMetadata,
                              tags |-> <<>>]]

\* DocumentUpdate(**kwargs).dict(exclude_unset=True)
DocumentUpdate(kwargs) == Restrict(kwargs, DocumentUpdateFields)

-----------------------------------------------------------------------------
(* database/operations.py                                                  *)

\* UserOperations.increment_user_stats: $inc of one counter.
increment_user_stats(us, user_id, field, amount) ==
    IF user_id \in DOMAIN us
    THEN [us EXCEPT ![user_id][field] = @ + amount]
    ELSE us

\* DocumentOperations.create_document; the new id is the inserted ObjectId.
create_document(docs, us, doc_data) ==
    LET doc_db == DocumentInDB(doc_data)
        new_id == CHOOSE d \in DocIds : d \notin DOMAIN docs
    IN  IF doc_db.exc # None
        THEN [exc |-> doc_db.exc, documents |-> docs, users |-> us,
              id |-> None]
        ELSE [exc |-> None,
              documents |-> (new_id :> doc_db.record) @@ docs,
              users |-> increment_user_stats(us, doc_data.user_id,
                                             "documents_uploaded", 1),
              id |-> new_id]

\* update_document without the processed_date stamp.
update_document_no_stamp(docs, t, document_id, update_data) ==
    IF document_id \in DOMAIN docs
    THEN [docs EXCEPT ![document_id] = update_data @@ @]
    ELSE docs

\* DocumentOperations.update_document: $set of the supplied fields, with
\* processed_date stamped whenever the supplied status is READY.  A missing
\* record changes nothing.
update_document(docs, t, document_id, update_data) ==
    LET stamped ==
            IF "status" \in DOMAIN update_data /\ update_data["status"] = READY
            THEN ("processed_date" :> t) @@ update_data
            ELSE update_data
    IN  IF document_id \in DOMAIN docs
        THEN [docs EXCEPT ![document_id] = stamped @@ @]
        ELSE docs

\* delete_document erasing the extracted data along with the status
delete_document_erasing(docs, document_id) ==
    IF document_id \in DOMAIN docs /\ docs[document_id].status # DELETED
    THEN [ok |-> TRUE,
          documents |-> [docs EXCEPT ![document_id].status = DELETED,
                                     ![document_id].content = None,
                                     ![document_id].metadata = DocumentMetadata]]
    ELSE [ok |-> FALSE, documents |-> docs]

\* DocumentOperations.delete_document: returns modified_count > 0.
delete_document(docs, document_id) ==
    IF document_id \in DOMAIN docs /\ docs[document_id].status # DELETED
    THEN [ok |-> TRUE,
          documents |-> [docs EXCEPT ![document_id].status = DELETED]]
    ELSE [ok |-> FALSE, documents |-> docs]

-----------------------------------------------------------------------------
(* Text.  File texts, lines and metadata strings are strings; a position   *)
(* is counted from 0 as Python counts it, and s[a:b] is Slice(s, a, b).    *)

Whitespace == {" ", "\t", "\n", "\r", "\f"}

Digits == {"0", "1", "2", "3", "4", "5", "6", "7", "8", "9"}

Uppercase == "ABCDEFGHIJKLMNOPQRSTUVWXYZ"

Lowercase == "abcdefghijklmnopqrstuvwxyz"

Char(s, i) == SubSeq(s, i, i)

Slice(s, a, b) == SubSeq(s, a + 1, b)

\* str.lower, by halves
RECURSIVE str_lower(_)
str_lower(s) ==
    IF Len(s) = 0 THEN ""
    ELSE IF Len(s) = 1
    THEN LET up == {i \in 1..Len(Uppercase) : Char(Uppercase, i) = s}
         IN  IF up = {} THEN s ELSE Char(Lowercase, CHOOSE i \in up : TRUE)
    ELSE str_lower(SubSeq(s, 1, Len(s) \div 2))
         \o str_lower(SubSeq(s, Len(s) \div 2 + 1, Len(s)))

\* str.strip
str_strip(s) ==
    LET keep == {i \in 1..Len(s) : Char(s, i) \notin Whitespace}
    IN  IF keep = {} THEN ""
        ELSE SubSeq(s, CHOOSE i \in keep : \A j \in keep : i <= j,
                       CHOOSE i \in keep : \A j \in keep : j <= i)

\* str.startswith
startswith(s, prefix) ==
    Len(prefix) <= Len(s) /\ SubSeq(s, 1, Len(prefix)) = prefix

\* str.find(sub, start): the least position from start on where sub
\* begins, -1 when there is none.
str_find(s, sub, start) ==
    LET at == {p \in start..(Len(s) - Len(sub)) :
                  Slice(s, p, p + Len(sub)) = sub}
    IN  IF at = {} THEN 0 - 1 ELSE CHOOSE p \in at : \A q \in at : p <= q

\* sub in s
contains(s, sub) == str_find(s, sub, 0) # 0 - 1

\* the members of a set of positions in increasing order
Sorted(S) ==
    [k \in 1..Cardinality(S) |->
        CHOOSE p \in S : Cardinality({q \in S : q < p}) = k - 1]

\* str.split(sep) for a separator of one character: the pieces between
\* consecutive separators
str_split(s, sep) ==
    LET cuts == Sorted({i \in 1..Len(s) : Char(s, i) = sep})
        from(k) == IF k = 1 THEN 1 ELSE cuts[k - 1] + 1
        to(k) == IF k = Len(cuts) + 1 THEN Len(s) ELSE cuts[k] - 1
    IN  [k \in 1..(Len(cuts) + 1) |-> SubSeq(s, from(k), to(k))]

\* str.split(): the maximal runs of characters that are not whitespace
words(s) ==
    LET black(i) == 1 <= i /\ i <= Len(s) /\ Char(s, i) \notin Whitespace
        starts == Sorted({i \in 1..Len(s) : black(i) /\ ~black(i - 1)})
        ends == Sorted({i \in 1..Len(s) : black(i) /\ ~black(i + 1)})
    IN  [k \in 1..Len(starts) |-> SubSeq(s, starts[k], ends[k])]

\* sep.join(parts), by halves
RECURSIVE str_join(_, _)
str_join(parts, sep) ==
    IF Len(parts) = 0 THEN ""
    ELSE IF Len(parts) = 1 THEN parts[1]
    ELSE str_join(SubSeq(parts, 1, Len(parts) \div 2), sep) \o sep
         \o str_join(SubSeq(parts, Len(parts) \div 2 + 1, Len(parts)), sep)

\* str.isdigit
isdigit(s) == s # "" /\ \A i \in 1..Len(s) : Char(s, i) \in Digits

-----------------------------------------------------------------------------
(* FileService: the heuristics of the extractors.                          *)

section_keywords ==
    {"abstract", "introduction", "methodology", "methods", "results",
     "discussion", "conclusion", "references", "acknowledgments", "appendix"}

\* _is_section_header matching the vocabulary in the case of the line
is_header_case_sensitive(raw) ==
    LET line == str_strip(raw)
    IN  IF Len(words(line)) <= 3
        THEN \E keyword \in section_keywords : contains(line, keyword)
        ELSE isdigit(str_split(line, ".")[1])

\* FileService._is_section_header
_is_section_header(raw) ==
    LET line == str_strip(raw)
    IN  IF Len(words(line)) <= 3
        THEN \E keyword \in section_keywords :
                contains(str_lower(line), keyword)
        ELSE isdigit(str_split(line, ".")[1])

\* FileService._extract_title: the first of the first ten lines that has
\* 10 to 200 characters and does not start with abstract or keywords.
_extract_title(content) ==
    LET lines == str_split(content, "\n")
        fits == {i \in 1..Len(lines) :
                    /\ i <= 10
                    /\ 10 <= Len(str_strip(lines[i]))
                    /\ Len(str_strip(lines[i])) <= 200
                    /\ ~startswith(str_lower(str_strip(lines[i])), "abstract")
                    /\ ~startswith(str_lower(str_strip(lines[i])), "keywords")}
    IN  IF fits = {} THEN None
        ELSE str_strip(lines[CHOOSE i \in fits : \A j \in fits : i <= j])

\* The element of a set of one: in Only({e : x \in {v}}), x is a local
\* variable that is assigned v once and then read in e.
Only(S) == CHOOSE r \in S : TRUE

end_markers == {"introduction", "keywords", "1.", "\n\n\n"}

\* FileService._extract_abstract up to its clean-up: the text from the
\* first 'abstract' to the nearest end marker, stripped and without that
\* leading word; None when the content has no 'abstract'.
bounded_abstract(content) ==
    LET lower_content == str_lower(content)
        abstract_start == str_find(lower_content, "abstract", 0)
        ends == {str_find(lower_content, m, abstract_start + 8) :
                    m \in end_markers} \ {0 - 1}
        abstract_end == IF ends = {} THEN Len(content)
                        ELSE CHOOSE p \in ends : \A q \in ends : p <= q
        found == str_strip(Slice(content, abstract_start, abstract_end))
    IN  IF abstract_start = 0 - 1 THEN None
        ELSE IF startswith(str_lower(found), "abstract")
        THEN str_strip(Slice(found, 8, Len(found)))
        ELSE found

\* FileService._extract_abstract
_extract_abstract(content) ==
    LET limited(cleaned) ==
            IF Len(words(cleaned)) > 300
            THEN str_join(SubSeq(words(cleaned), 1, 300), " ") \o "..."
            ELSE cleaned
    IN  Only({IF cleaned = None THEN None
              ELSE Only({IF Len(abstract) > 50 THEN abstract ELSE None :
                            abstract \in {limited(cleaned)}}) :
                 cleaned \in {bounded_abstract(content)}})

\* FileService._extract_from_txt
_extract_from_txt(content) ==
    [content |-> content,
     metadata |-> [DocumentMetadata EXCEPT
                     !.total_words = Len(words(content)),
                     !.title = str_strip(str_split(content, "\n")[1]),
                     !.abstract = _extract_abstract(content)]]

\* the lines of a list of lists, in order
RECURSIVE Flatten(_)
Flatten(seqs) ==
    IF seqs = <<>> THEN <<>> ELSE Head(seqs) \o Flatten(Tail(seqs))

\* The section loop of the two extractors, over the lines it has walked.
\* A line is [text, header, title, page]: whether it opens a section, the
\* title it gives it, and the page_numbers argument used when it closes
\* the section before it.  A section is appended when the next header is
\* met, and after the loop when finished, and only `if current_section and
\* current_content`; DocumentSection fills word_count from the content.
collect_sections(lines, finished) ==
    LET heads == {i \in 1..Len(lines) : lines[i].header}
        later(h) == {j \in heads : j > h}
        next(h) == IF later(h) = {} THEN Len(lines) + 1
                   ELSE CHOOSE j \in later(h) : \A k \in later(h) : j <= k
        body(h) == [i \in 1..(next(h) - h - 1) |-> lines[h + i].text]
        section(h) ==
            Only({[title |-> lines[h].title,
                   content |-> content,
                   page_numbers |-> IF later(h) = {} THEN <<>>
                                    ELSE lines[next(h)].page,
                   word_count |-> Len(words(content))] :
                     content \in {str_join(body(h), "\n")}})
    IN  Only({[n \in 1..Len(kept) |-> section(kept[n])] :
                 kept \in {Sorted({h \in heads :
                                     /\ lines[h].title # ""
                                     /\ body(h) # <<>>
                                     /\ (finished \/ later(h) # {})})}})

\* page_text.split('\n') of page number i (from 0), each line tested with
\* _is_section_header
page_lines(page_text, i) ==
    Only({[k \in 1..Len(lines) |->
              [text |-> lines[k], header |-> _is_section_header(lines[k]),
               title |-> str_strip(lines[k]), page |-> <<i>>]] :
             lines \in {str_split(page_text, "\n")}})

\* FileService._extract_from_pdf: a form feed ends a page.  fail_at is 0
\* when pdfplumber reads every page, and otherwise the number of the page
\* whose extract_text raises, after which PyPDF2 reads the file from its
\* first page into the same content_parts.
_extract_from_pdf(text, fail_at) ==
    LET read(pages) == IF fail_at = 0 THEN pages
                       ELSE SubSeq(pages, 1, fail_at - 1)
        content_parts(pages) == IF fail_at = 0 THEN pages
                                ELSE read(pages) \o pages
        page_sections(pages) ==
            Only({collect_sections(lines, fail_at = 0) :
                     lines \in {Flatten([p \in 1..Len(read(pages)) |->
                                    page_lines(read(pages)[p], p - 1)])}})
    IN  Only({[content |-> full_content,
               metadata |-> [DocumentMetadata EXCEPT
                   !.total_pages = Len(pages),
                   !.title = IF fail_at = 0
                             THEN _extract_title(content_parts(pages)[1])
                             ELSE None,
                   !.abstract =
                       IF fail_at = 0
                       THEN _extract_abstract(
                                str_join(content_parts(pages), "\n"))
                       ELSE None,
                   !.total_words = Len(words(full_content)),
                   !.sections = page_sections(pages)]] :
                 pages \in {str_split(text, "\f")},
                 full_content \in {str_join(content_parts(str_split(text, "\f")),
                                            "\n\n")}})

\* doc.paragraphs: a line is a paragraph, and a paragraph that starts with
\* # has a Heading style and the rest of the line as its text.
paragraph_lines(text) ==
    LET heading(t) == startswith(t, "#")
        paragraph(t) ==
            Only({[text |-> stripped, header |-> heading(t),
                   title |-> stripped, page |-> <<>>] :
                     stripped \in {IF heading(t)
                                   THEN str_strip(Slice(t, 1, Len(t)))
                                   ELSE t}})
    IN  SelectSeq(Only({[k \in 1..Len(paragraphs) |->
                            Only({paragraph(t) :
                                     t \in {str_strip(paragraphs[k])}})] :
                           paragraphs \in {str_split(text, "\n")}}),
                  LAMBDA l : l.text # "")

\* FileService._extract_from_docx
_extract_from_docx(text) ==
    LET body(lines) == SelectSeq(lines, LAMBDA l : ~l.header)
        content_parts(lines) ==
            [k \in 1..Len(body(lines)) |-> body(lines)[k].text]
    IN  Only({[content |-> full_content,
               metadata |-> [DocumentMetadata EXCEPT
                   !.title = _extract_title(full_content),
                   !.abstract = _extract_abstract(full_content),
                   !.total_words = Len(words(full_content)),
                   !.sections = collect_sections(lines, TRUE)]] :
                 lines \in {paragraph_lines(text)},
                 full_content \in {str_join(content_parts(paragraph_lines(text)),
                                            "\n\n")}})

-----------------------------------------------------------------------------
(* FileService.extract_text_content and the AI calls of the task.          *)

\* The texts of the files whose extraction is followed: with and without
\* a title line, an abstract and section headers.
ExtractTexts ==
    { "Deep Learning Survey\nAbstract\nThis paper surveys deep learning methods for document analysis tasks.\nIntroduction\nbody",
      "\n\nDeep Learning Survey\nsome words here",
      "Short\nwords",
      "   \nTitle Line Here\n" }

\* The extractor of each type on each text a stored file can hold.  The
\* extractors are pure, so their results are worked out once; pdfplumber
\* reads every page.
extracted_content ==
    [text \in {"text"} \cup ExtractTexts |->
        [doc_type \in DocumentType |->
            IF doc_type = <<"p", "d", "f">> THEN _extract_from_pdf(text, 0)
            ELSE IF doc_type = <<"d", "o", "c", "x">>
            THEN _extract_from_docx(text)
            ELSE _extract_from_txt(text)]]

\* Raises FileNotFoundError for a missing file and the parser's error for
\* bytes no extractor can read; otherwise returns the full text and the
\* metadata of the extractor of the type.  The body of a blob is its text.
extract_text_content(fs, file_path, doc_type) ==
    LET raised(exc) == [exc |-> exc, content |-> None,
                        metadata |-> DocumentMetadata]
        text == fs[file_path].body
    IN  IF file_path \notin DOMAIN fs
        THEN raised("FileNotFoundError")
        ELSE IF doc_type \notin DocumentType
        THEN raised("ValueError: Unsupported document type")
        ELSE IF text = "garbage"
        THEN raised("ExtractionError")
        ELSE [exc |-> None] @@ extracted_content[text][doc_type]

\* What AIService.extract_document_metadata may answer: any of the fields
\* filled or left empty, and DocumentMetadata() when the call fails.
AIReplies ==
    {DocumentMetadata}
    \cup { [DocumentMetadata EXCEPT !.title = t, !.abstract = a,
                                    !.keywords = k,
                                    !.main_topics = <<"topic">>,
                                    !.key_findings = <<"finding">>] :
             t \in {None, "AI title"}, a \in {None, "AI abstract"},
             k \in {<<>>, <<"ai">>} }

\* a value Python takes for false where a string is expected
falsy(v) == v \in {None, ""}

\* the merge of upload.py:42-48 with the AI value taken first
ai_overwrite(metadata, ai_metadata) ==
    IF falsy(metadata.title) \/ falsy(metadata.abstract)
    THEN [metadata EXCEPT
            !.title = IF falsy(ai_metadata.title) THEN @
                      ELSE ai_metadata.title,
            !.abstract = IF falsy(ai_metadata.abstract) THEN @
                         ELSE ai_metadata.abstract,
            !.keywords = IF ai_metadata.keywords = <<>> THEN @
                         ELSE ai_metadata.keywords,
            !.main_topics = ai_metadata.main_topics,
            !.key_findings = ai_metadata.key_findings]
    ELSE metadata

\* process_document_background, lines 42-48: the AI is asked when the
\* title or the abstract is empty, and `x or y` keeps a non-empty x.
ai_enrich(metadata, ai_metadata) ==
    IF falsy(metadata.title) \/ falsy(metadata.abstract)
    THEN [metadata EXCEPT
            !.title = IF falsy(@) THEN ai_metadata.title ELSE @,
            !.abstract = IF falsy(@) THEN ai_metadata.abstract ELSE @,
            !.keywords = IF @ = <<>> THEN ai_metadata.keywords ELSE @,
            !.main_topics = ai_metadata.main_topics,
            !.key_findings = ai_metadata.key_findings]
    ELSE metadata

\* A direct call of a helper: its argument, and its value once it returned.
Call(fn, arg, returned, value) ==
    [fn |-> fn, arg |-> arg, returned |-> returned, value |-> value]

NoCall == Call(None, "", FALSE, FALSE)

\* Nobody has registered or logged in, and the rate limiter has seen no
\* request.
NoLogins ==
    /\ crud_users = <<>>
    /\ crud_sessions = <<>>
    /\ accounts = <<>>
    /\ registering = <<>>
    /\ request_counts = <<>>
    /\ current_time = 0
    /\ forwarded = <<>>

-----------------------------------------------------------------------------
(* The initial store.  The documents collection outlives the process; it   *)
(* holds either nothing or a record as create_document is written to       *)
(* insert it (status UPLOADING, nothing extracted, the DocumentInDB         *)
(* defaults), with its file in the owner's folder and its extraction task  *)
(* handed to the scheduler (upload.py:112).  upload_document itself cannot *)
(* add to it: see DocumentInDBRequired and create_document.                *)

SeedBlobs == {b \in Blobs : b.len = 1024}

SeedName == [d \in DocIds |-> IF d = "d1" THEN <<"a", ".", "p", "d", "f">>
                                           ELSE <<"A", ".", "T", "X", "T">>]

SeedOwner == "alice"

SeedSaved(d, b) ==
    save_uploaded_file(<<>>, 0, b, SeedName[d], SeedOwner, TRUE)

SeedRecord(d, b) ==
    LET saved == SeedSaved(d, b)
    IN  DocumentInDB([filename |-> saved.file_path.name,
                      original_filename |-> SeedName[d],
                      file_type |-> saved.doc_type,
                      file_size |-> b.len,
                      content_hash |-> saved.content_hash,
                      user_id |-> SeedOwner,
                      file_path |-> saved.file_path]).record

NewTask(file_path, doc_type) ==
    [pc |-> "scheduled", file_path |-> file_path, doc_type |-> doc_type,
     content |-> None, metadata |-> DocumentMetadata, exc |-> None]

Init ==
    \E seeded \in SUBSET DocIds :
      \E blob \in [seeded -> SeedBlobs] :
        /\ files = [p \in {SeedSaved(d, blob[d]).file_path : d \in seeded} |->
                      LET d == CHOOSE x \in seeded :
                                 SeedSaved(x, blob[x]).file_path = p
                      IN  blob[d]]
        /\ documents = [d \in seeded |-> SeedRecord(d, blob[d])]
        /\ tasks = [d \in seeded |->
                      NewTask(SeedSaved(d, blob[d]).file_path,
                              SeedSaved(d, blob[d]).doc_type)]
        /\ users = [u \in Users |->
                      [documents_uploaded |->
                           IF u = SeedOwner THEN Cardinality(seeded) ELSE 0,
                       storage_used_mb |-> 0]]
        /\ now = 1
        /\ uploads = 0
        /\ deletes = 0
        /\ ever_ready = {}
        /\ response = [op |-> None, code |-> 0, detail |-> None]
        /\ probe = NoCall
        /\ NoLogins

-----------------------------------------------------------------------------
(* The clock.                                                              *)

Tick ==
    /\ now < MaxTime
    /\ now' = now + 1
    /\ UNCHANGED <<login_vars, limit_vars, probe, files, documents, tasks, users, uploads, deletes,
                   ever_ready, response>>

\* ids whose record shows READY, for the history variable
ReadyNow(docs) == {d \in DOMAIN docs : docs[d].status = READY}

-----------------------------------------------------------------------------
(* POST /upload/ : upload_document.                                        *)

\* HTTPException as the route raises it; other responses carry no detail.
Reply(op, code, detail) == [op |-> op, code |-> code, detail |-> detail]

upload_document(user, filename, file_content, io_ok) ==
    LET saved == save_uploaded_file(files, now, file_content, filename,
                                    user, io_ok)
        doc_create ==
            DocumentCreate([filename |-> saved.file_path.name,
                            original_filename |-> filename,
                            file_type |-> saved.doc_type,
                            file_size |-> file_content.len,
                            content_hash |-> saved.content_hash,
                            user_id |-> user,
                            file_path |-> saved.file_path])
        created == create_document(documents, users, doc_create.data)
    IN  /\ uploads < MaxUploads
        /\ uploads' = uploads + 1
        /\ files' = saved.files
        /\ UNCHANGED <<login_vars, limit_vars, probe, now, deletes, ever_ready>>
        /\ IF saved.exc = "OSError"
           THEN /\ response' = Reply("upload", 500, "Failed to upload document")
                /\ UNCHANGED <<documents, tasks, users>>
           ELSE IF saved.exc # None
           THEN /\ response' = Reply("upload", 400, saved.exc)
                /\ UNCHANGED <<documents, tasks, users>>
           ELSE IF doc_create.exc # None
           THEN /\ response' = Reply("upload", 400, doc_create.exc)
                /\ UNCHANGED <<documents, tasks, users>>
           ELSE IF created.exc # None
           THEN /\ response' = Reply("upload", 400, created.exc)
                /\ UNCHANGED <<documents, tasks, users>>
           ELSE /\ documents' = created.documents
                /\ users' = created.users
                /\ tasks' = (created.id :>
                               NewTask(saved.file_path, saved.doc_type))
                            @@ tasks
                /\ response' = Reply("upload", 201,
                                     created.documents[created.id].status)

-----------------------------------------------------------------------------
(* POST /upload/batch : upload_documents_batch.  A file of the batch is    *)
(* [filename, file_content, io_ok].                                        *)

\* The loop over the files.  st is [files, documents, users, tasks,
\* uploaded]; an exception raised for a file is logged and the loop goes
\* on with the next file, keeping what was written before the exception.
RECURSIVE batch_loop(_, _, _, _)
batch_loop(st, batch, user, t) ==
    IF batch = <<>> THEN st
    ELSE LET file == Head(batch)
             saved == save_uploaded_file(st.files, t, file.file_content,
                                         file.filename, user, file.io_ok)
             doc_create ==
                 DocumentCreate([filename |-> saved.file_path.name,
                                 original_filename |-> file.filename,
                                 file_type |-> saved.doc_type,
                                 file_size |-> file.file_content.len,
                                 content_hash |-> saved.content_hash,
                                 user_id |-> user,
                                 file_path |-> saved.file_path])
             created == create_document(st.documents, st.users,
                                        doc_create.data)
             after ==
                 IF saved.exc # None THEN st
                 ELSE IF doc_create.exc # None \/ created.exc # None
                 THEN [st EXCEPT !.files = saved.files]
                 ELSE [files |-> saved.files,
                       documents |-> created.documents,
                       users |-> created.users,
                       tasks |-> (created.id :>
                                    NewTask(saved.file_path, saved.doc_type))
                                 @@ st.tasks,
                       uploaded |-> Append(st.uploaded, created.id)]
         IN  batch_loop(after, Tail(batch), user, t)

upload_documents_batch(user, batch) ==
    LET st == batch_loop([files |-> files, documents |-> documents,
                          users |-> users, tasks |-> tasks,
                          uploaded |-> <<>>], batch, user, now)
    IN  /\ uploads < MaxUploads
        /\ uploads' = uploads + 1
        /\ UNCHANGED <<login_vars, limit_vars, probe, now, deletes,
                       ever_ready>>
        /\ IF Len(batch) > 5
           THEN /\ response' = Reply("batch", 400, "Maximum 5 files per batch")
                /\ UNCHANGED <<files, documents, tasks, users>>
           ELSE /\ files' = st.files
                /\ documents' = st.documents
                /\ users' = st.users
                /\ tasks' = st.tasks
                /\ response' = Reply("batch", 200, None)
                               @@ [uploaded |-> st.uploaded]

-----------------------------------------------------------------------------
(* process_document_background, one action per await that matters: the     *)
(* extraction and AI calls, the READY write, the FAILED write of the       *)
(* handler.  ai_ok and db_ok are whether the external call goes through,   *)
(* ai_metadata is what the AI answers when it is asked for metadata.       *)

process_document_background_extract(d, ai_ok, ai_metadata) ==
    /\ d \in DOMAIN tasks
    /\ tasks[d].pc = "scheduled"
    /\ \E got \in {extract_text_content(files, tasks[d].file_path,
                                         tasks[d].doc_type)} :
         LET exc == IF got.exc # None THEN got.exc
                    ELSE IF ~ai_ok THEN "EmbeddingError"
                    ELSE None
         IN  tasks' = [tasks EXCEPT ![d].pc = IF exc = None THEN "update"
                                              ELSE "except",
                                    ![d].content = got.content,
                                    ![d].metadata =
                                        IF exc = None
                                        THEN ai_enrich(got.metadata,
                                                       ai_metadata)
                                        ELSE got.metadata,
                                    ![d].exc = exc]
    /\ UNCHANGED <<login_vars, limit_vars, probe, files, documents, users, now, uploads, deletes,
                   ever_ready, response>>

process_document_background_ready(d, db_ok) ==
    /\ d \in DOMAIN tasks
    /\ tasks[d].pc = "update"
    /\ IF db_ok
       THEN /\ documents' =
                 update_document(documents, now, d,
                     DocumentUpdate([content |-> tasks[d].content,
                                     metadata |-> tasks[d].metadata,
                                     status |-> READY,
                                     content_embedding |-> "vector"]))
            /\ tasks' = [tasks EXCEPT ![d].pc = "done"]
       ELSE /\ documents' = documents
            /\ tasks' = [tasks EXCEPT ![d].pc = "except",
                                      ![d].exc = "DatabaseError"]
    /\ ever_ready' = ever_ready \cup ReadyNow(documents')
    /\ UNCHANGED <<login_vars, limit_vars, probe, files, users, now, uploads, deletes, response>>

\* the handler storing what the run had extracted along with FAILED
failed_keeping_partial(d, db_ok) ==
    /\ d \in DOMAIN tasks
    /\ tasks[d].pc = "except"
    /\ IF db_ok
       THEN /\ documents' =
                 update_document(documents, now, d,
                     DocumentUpdate([status |-> FAILED,
                                     content |-> tasks[d].content,
                                     metadata |-> tasks[d].metadata]))
            /\ tasks' = [tasks EXCEPT ![d].pc = "done"]
       ELSE /\ documents' = documents
            /\ tasks' = [tasks EXCEPT ![d].pc = "crashed"]
    /\ ever_ready' = ever_ready \cup ReadyNow(documents')
    /\ UNCHANGED <<login_vars, limit_vars, probe, files, users, now, uploads, deletes, response>>

process_document_background_failed(d, db_ok) ==
    /\ d \in DOMAIN tasks
    /\ tasks[d].pc = "except"
    /\ IF db_ok
       THEN /\ documents' =
                 update_document(documents, now, d,
                     DocumentUpdate([status |-> FAILED,
                                     error_message |-> tasks[d].exc]))
            /\ tasks' = [tasks EXCEPT ![d].pc = "done"]
       ELSE /\ documents' = documents
            /\ tasks' = [tasks EXCEPT ![d].pc = "crashed"]
    /\ ever_ready' = ever_ready \cup ReadyNow(documents')
    /\ UNCHANGED <<login_vars, limit_vars, probe, files, users, now, uploads, deletes, response>>

-----------------------------------------------------------------------------
(* PATCH /upload/{id} and DELETE /upload/{id}.                             *)

\* Request bodies: any subset of these keys, each with one of its values.
PatchValues == [status |-> DocumentStatus, content |-> {None, "text"}]

PatchBodies ==
    UNION { {b \in [keys -> DocumentStatus \cup {None, "text"}] :
                \A k \in keys : b[k] \in PatchValues[k]} :
            keys \in SUBSET DOMAIN PatchValues }

\* the ownership check with the test of the role inverted
access_denied_to_admin(docs, document_id, user) ==
    docs[document_id].user_id # user /\ role[user] = "admin"

\* the ownership check shared by the per-document routes
access_denied(docs, document_id, user) ==
    docs[document_id].user_id # user /\ role[user] # "admin"

route_update_document(document_id, body, user) ==
    /\ IF document_id \notin DOMAIN documents
       THEN /\ response' = Reply("update", 404, "Document not found")
            /\ documents' = documents
       ELSE IF access_denied(documents, document_id, user)
       THEN /\ response' = Reply("update", 403, "Access denied")
            /\ documents' = documents
       ELSE /\ documents' = update_document(documents, now, document_id,
                                            DocumentUpdate(body))
            /\ response' = Reply("update", 200, None)
    /\ ever_ready' = ever_ready \cup ReadyNow(documents')
    /\ UNCHANGED <<login_vars, limit_vars, probe, files, tasks, users, now, uploads, deletes>>

route_delete_document(document_id, user) ==
    LET deleted == delete_document(documents, document_id)
    IN  /\ deletes < MaxDeletes
        /\ IF document_id \notin DOMAIN documents
           THEN /\ response' = Reply("delete", 404, "Document not found")
                /\ UNCHANGED <<documents, users, deletes>>
           ELSE IF access_denied(documents, document_id, user)
           THEN /\ response' = Reply("delete", 403, "Access denied")
                /\ UNCHANGED <<documents, users, deletes>>
           ELSE IF ~deleted.ok
           THEN /\ response' = Reply("delete", 500, "Failed to delete document")
                /\ UNCHANGED <<documents, users, deletes>>
           ELSE /\ documents' = deleted.documents
                /\ users' = increment_user_stats(users, user,
                                "storage_used_mb",
                                0 - documents[document_id].file_size)
                /\ deletes' = deletes + 1
                /\ response' = Reply("delete", 204, None)
        /\ UNCHANGED <<login_vars, limit_vars, probe, files, tasks, now, uploads, ever_ready>>

-----------------------------------------------------------------------------
(* main.py: rate_limit_middleware.  Settings reads rate_limit_requests and *)
(* rate_limit_period from the environment (defaults 100 requests and 3600  *)
(* seconds); the model runs a deployment configured with the small values  *)
(* below, and a clock that shows 0 to MaxClock seconds.                    *)

rate_limit_requests == 2

rate_limit_period == 2

MaxClock == 4

exempt_paths == {"/docs", "/redoc", "/openapi.json", "/health"}

\* time.time() moves on
sleep ==
    /\ current_time < MaxClock
    /\ current_time' = current_time + 1
    /\ UNCHANGED <<login_vars, document_vars, probe, now, response,
                   request_counts, forwarded>>

\* call_next(request), recorded in the history for a counted request
call_next(client_ip, path) ==
    /\ response' = Reply("call_next", 200, path)
    /\ forwarded' =
         IF path \in exempt_paths THEN forwarded
         ELSE (client_ip :>
                 Append(IF client_ip \in DOMAIN forwarded
                        THEN forwarded[client_ip] ELSE <<>>,
                        current_time)) @@ forwarded

rate_limit_middleware(client_ip, path) ==
    /\ UNCHANGED <<login_vars, document_vars, probe, now, current_time>>
    /\ IF path \in exempt_paths
       THEN /\ call_next(client_ip, path)
            /\ UNCHANGED request_counts
       ELSE IF client_ip \notin DOMAIN request_counts
       THEN /\ request_counts' =
                 (client_ip :> [count |-> 1, window_start |-> current_time])
                 @@ request_counts
            /\ call_next(client_ip, path)
       ELSE IF current_time - request_counts[client_ip].window_start
                 > rate_limit_period
       THEN /\ request_counts' =
                 [request_counts EXCEPT
                    ![client_ip] = [count |-> 1,
                                    window_start |-> current_time]]
            /\ call_next(client_ip, path)
       ELSE IF request_counts[client_ip].count >= rate_limit_requests
       THEN /\ response' = Reply("rate_limit", 429,
                 "Rate limit exceeded. Please try again later.")
            /\ UNCHANGED <<request_counts, forwarded>>
       ELSE /\ request_counts' =
                 [request_counts EXCEPT ![client_ip].count = @ + 1]
            /\ call_next(client_ip, path)

-----------------------------------------------------------------------------
(* routers/auth.py: AuthManager over the crud object of crud_operations.   *)
(* crud is a plain store of the users and sessions collections under the   *)
(* indexes utils/database.py declares (username, email and session_token   *)
(* unique, sessions dropped at expires_at); a session is found while it is *)
(* active and not expired.                                                 *)

AccountIds == {"u1", "u2"}

Usernames == {"ann", "ben"}

Emails == {"ann@x.org", "ben@x.org"}

Passwords == {"Passw0rd1", "N3wSecret"}

Requests == {"r1", "r2"}

\* what a call returned to its caller, as a record
Returned(op, value) ==
    [op |-> op, code |-> 0, detail |-> None, value |-> value]

crud_get_user_by_username(us, username) ==
    {id \in DOMAIN us : us[id].username = username}

crud_get_user_by_email(us, email) ==
    {id \in DOMAIN us : us[id].email = email}

\* insert_one under the unique indexes: None stands for the raised
\* DuplicateKeyError, which register_user catches
crud_create_user(us, user_data) ==
    IF crud_get_user_by_username(us, user_data.username) # {}
       \/ crud_get_user_by_email(us, user_data.email) # {}
       \/ DOMAIN us = AccountIds
    THEN [id |-> None, users |-> us]
    ELSE LET id == CHOOSE x \in AccountIds : x \notin DOMAIN us
         IN  [id |-> id, users |-> (id :> user_data) @@ us]

crud_get_session_by_token(ss, session_token, t) ==
    {k \in DOMAIN ss : /\ k = session_token
                       /\ ss[k].is_active
                       /\ ss[k].expires_at > t}

crud_invalidate_session(ss, session_token) ==
    IF session_token \in DOMAIN ss /\ ss[session_token].is_active
    THEN [ok |-> TRUE, sessions |-> [ss EXCEPT ![session_token].is_active = FALSE]]
    ELSE [ok |-> FALSE, sessions |-> ss]

\* AuthManager.hash_password: a salted bcrypt hash, which checkpw accepts
\* for the hashed password and for no other
hash_password(password) == <<"bcrypt", password>>

\* verify_password comparing the stored hash with the plain password
verify_password_plain(password, hashed_password) ==
    hashed_password = <<password>>

\* AuthManager.verify_password
verify_password(password, hashed_password) ==
    hashed_password = hash_password(password)

expiration_hours == 24

\* register_user up to its first await's answer: the username lookup
auth_register_user(r, username, email, password) ==
    /\ r \notin DOMAIN registering
    /\ registering' =
         (r :> [via |-> "AuthManager", username |-> username,
                email |-> email, password |-> password,
                pc |-> IF crud_get_user_by_username(crud_users, username) # {}
                       THEN "failed" ELSE "check_email",
                result |-> IF crud_get_user_by_username(crud_users, username) # {}
                           THEN "Username already exists" ELSE None])
         @@ registering
    /\ UNCHANGED <<limit_vars, document_vars, probe, now, response,
                   crud_users, crud_sessions, accounts>>

\* the email lookup
auth_register_user_email(r) ==
    /\ r \in DOMAIN registering
    /\ registering[r].via = "AuthManager"
    /\ registering[r].pc = "check_email"
    /\ registering' =
         IF crud_get_user_by_email(crud_users, registering[r].email) # {}
         THEN [registering EXCEPT ![r].pc = "failed",
                                  ![r].result = "Email already registered"]
         ELSE [registering EXCEPT ![r].pc = "create"]
    /\ UNCHANGED <<limit_vars, document_vars, probe, now, response,
                   crud_users, crud_sessions, accounts>>

\* hash_password and crud.create_user
auth_register_user_create(r) ==
    LET created ==
            crud_create_user(crud_users,
                [username |-> registering[r].username,
                 email |-> registering[r].email,
                 password_hash |-> hash_password(registering[r].password),
                 is_active |-> TRUE])
    IN  /\ r \in DOMAIN registering
        /\ registering[r].via = "AuthManager"
        /\ registering[r].pc = "create"
        /\ crud_users' = created.users
        /\ registering' =
             IF created.id = None
             THEN [registering EXCEPT ![r].pc = "failed",
                                      ![r].result = "Registration failed"]
             ELSE [registering EXCEPT ![r].pc = "done",
                                      ![r].result = created.id]
        /\ UNCHANGED <<limit_vars, document_vars, probe, now, response,
                       crud_sessions, accounts>>

\* AuthManager.authenticate_user: (success, message, user_data)
authenticate_user(us, username, password) ==
    LET by_name == crud_get_user_by_username(us, username)
        found == IF by_name # {} THEN by_name
                 ELSE crud_get_user_by_email(us, username)
        id == CHOOSE x \in found : TRUE
    IN  IF found = {} THEN [ok |-> FALSE, message |-> "User not found",
                            user_id |-> None, username |-> None]
        ELSE IF ~us[id].is_active
        THEN [ok |-> FALSE, message |-> "Account is deactivated",
              user_id |-> None, username |-> None]
        ELSE IF ~verify_password(password, us[id].password_hash)
        THEN [ok |-> FALSE, message |-> "Invalid password",
              user_id |-> None, username |-> None]
        ELSE [ok |-> TRUE, message |-> "Authentication successful",
              user_id |-> id, username |-> us[id].username]

auth_authenticate_user(username, password) ==
    /\ response' = Returned("authenticate_user",
                            authenticate_user(crud_users, username, password))
    /\ UNCHANGED <<login_vars, limit_vars, document_vars, probe, now>>

\* AuthManager.create_user_session: the token is fresh, and
\* crud.create_session stores the session under it
create_user_session(user_id, session_token) ==
    /\ session_token \notin DOMAIN crud_sessions
    /\ crud_sessions' =
         (session_token :>
            [user_id |-> user_id, session_token |-> session_token,
             expires_at |-> now + expiration_hours * 3600,
             is_active |-> TRUE]) @@ crud_sessions
    /\ response' = Returned("create_user_session",
                            [session_token |-> session_token])
    /\ UNCHANGED <<limit_vars, document_vars, probe, now, crud_users,
                   accounts, registering>>

\* AuthManager.validate_session: the user of the session that
\* crud.get_session_by_token and crud.get_user_by_id find, or None
session_user(us, ss, session_token, t) ==
    LET session == crud_get_session_by_token(ss, session_token, t)
        user == {ss[session_token].user_id} \cap DOMAIN us
    IN  IF session # {} /\ user # {} /\ us[ss[session_token].user_id].is_active
        THEN [user_id |-> ss[session_token].user_id,
              username |-> us[ss[session_token].user_id].username]
        ELSE [user_id |-> None, username |-> None]

validate_session(session_token) ==
    /\ response' = Returned("validate_session",
                            session_user(crud_users, crud_sessions,
                                         session_token, now))
    /\ UNCHANGED <<login_vars, limit_vars, document_vars, probe, now>>

\* AuthManager.logout_user
logout_user(session_token) ==
    LET done == crud_invalidate_session(crud_sessions, session_token)
    IN  /\ crud_sessions' = done.sessions
        /\ response' = Returned("logout_user", [ok |-> done.ok])
        /\ UNCHANGED <<limit_vars, document_vars, probe, now, crud_users,
                       accounts, registering>>

\* the lifetime of a session goes by
expiration_passes ==
    /\ now <= MaxTime
    /\ now' = now + expiration_hours * 3600
    /\ UNCHANGED <<login_vars, limit_vars, document_vars, probe, response>>

-----------------------------------------------------------------------------
(* services/user_service.py over UserOperations and the users collection   *)
(* of database/connection.py, whose email and username indexes are unique. *)
(* A record of accounts keeps the credential fields of the stored          *)
(* document; the key password, which only update_user can set, holds <<>>  *)
(* while the document has no such key.                                     *)

\* UserService.get_password_hash: passlib's salted bcrypt hash
get_password_hash(password) == <<"bcrypt", password>>

\* UserService.verify_password
pwd_context_verify(plain_password, hashed_password) ==
    hashed_password = get_password_hash(plain_password)

\* UserUpdate(**kwargs).dict(exclude_unset=True)
UserUpdate(kwargs) ==
    Restrict(kwargs, {"email", "username", "full_name", "password",
                      "is_active", "role", "preferences"})

get_user_by_email(accts, email) ==
    {id \in DOMAIN accts : accts[id].email = email}

get_user_by_username(accts, username) ==
    {id \in DOMAIN accts : accts[id].username = username}

\* create_user on a collection without the unique indexes
create_user_unindexed(accts, user_data, hashed_password) ==
    IF DOMAIN accts = AccountIds
    THEN [exc |-> "OutOfIds", id |-> None, accounts |-> accts]
    ELSE LET id == CHOOSE x \in AccountIds : x \notin DOMAIN accts
         IN  [exc |-> None, id |-> id,
              accounts |-> (id :> [username |-> user_data.username,
                                   email |-> user_data.email,
                                   hashed_password |-> hashed_password,
                                   is_active |-> TRUE,
                                   password |-> <<>>]) @@ accts]

\* UserOperations.create_user: insert_one raises DuplicateKeyError when
\* the email or the username is already in the collection
create_user(accts, user_data, hashed_password) ==
    IF get_user_by_email(accts, user_data.email) # {}
       \/ get_user_by_username(accts, user_data.username) # {}
    THEN [exc |-> "DuplicateKeyError", id |-> None, accounts |-> accts]
    ELSE IF DOMAIN accts = AccountIds
    THEN [exc |-> "OutOfIds", id |-> None, accounts |-> accts]
    ELSE LET id == CHOOSE x \in AccountIds : x \notin DOMAIN accts
         IN  [exc |-> None, id |-> id,
              accounts |-> (id :> [username |-> user_data.username,
                                   email |-> user_data.email,
                                   hashed_password |-> hashed_password,
                                   is_active |-> TRUE,
                                   password |-> <<>>]) @@ accts]

\* UserOperations.update_user: $set of the fields the update carries; the
\* updated document, or None when there is no such user
update_user(accts, user_id, user_update) ==
    IF user_id \in DOMAIN accts
    THEN [found |-> TRUE,
          accounts |-> [accts EXCEPT ![user_id] = user_update @@ @]]
    ELSE [found |-> FALSE, accounts |-> accts]

\* UserService.register_user up to the answer of its first await, the
\* email lookup
service_register_user(r, user_data) ==
    /\ r \notin DOMAIN registering
    /\ registering' =
         (r :> [via |-> "UserService", username |-> user_data.username,
                email |-> user_data.email, password |-> user_data.password,
                pc |-> IF get_user_by_email(accounts, user_data.email) # {}
                       THEN "failed" ELSE "check_username",
                result |-> IF get_user_by_email(accounts, user_data.email) # {}
                           THEN "Email already registered" ELSE None])
         @@ registering
    /\ UNCHANGED <<limit_vars, document_vars, probe, now, response,
                   crud_users, crud_sessions, accounts>>

\* the username lookup
service_register_user_username(r) ==
    /\ r \in DOMAIN registering
    /\ registering[r].via = "UserService"
    /\ registering[r].pc = "check_username"
    /\ registering' =
         IF get_user_by_username(accounts, registering[r].username) # {}
         THEN [registering EXCEPT ![r].pc = "failed",
                                  ![r].result = "Username already taken"]
         ELSE [registering EXCEPT ![r].pc = "create"]
    /\ UNCHANGED <<limit_vars, document_vars, probe, now, response,
                   crud_users, crud_sessions, accounts>>

\* get_password_hash and UserOperations.create_user
service_register_user_create(r) ==
    LET created == create_user(accounts, registering[r],
                               get_password_hash(registering[r].password))
    IN  /\ r \in DOMAIN registering
        /\ registering[r].via = "UserService"
        /\ registering[r].pc = "create"
        /\ accounts' = created.accounts
        /\ registering' =
             IF created.exc # None
             THEN [registering EXCEPT ![r].pc = "failed",
                                      ![r].result = created.exc]
             ELSE [registering EXCEPT ![r].pc = "done",
                                      ![r].result = created.id]
        /\ UNCHANGED <<limit_vars, document_vars, probe, now, response,
                       crud_users, crud_sessions>>

\* UserService.authenticate_user: the user, found by email or else by
\* username, when the password matches the stored hashed_password
service_authenticate(accts, username_or_email, password) ==
    LET by_email == get_user_by_email(accts, username_or_email)
        found == IF by_email # {} THEN by_email
                 ELSE get_user_by_username(accts, username_or_email)
        id == CHOOSE x \in found : TRUE
    IN  IF found = {} THEN [ok |-> FALSE, user_id |-> None]
        ELSE IF ~pwd_context_verify(password, accts[id].hashed_password)
        THEN [ok |-> FALSE, user_id |-> None]
        ELSE [ok |-> TRUE, user_id |-> id]

\* UserService.change_password
change_password(user_id, old_password, new_password) ==
    LET updated ==
            update_user(accounts, user_id,
                UserUpdate([password |-> get_password_hash(new_password)]))
    IN  /\ UNCHANGED <<limit_vars, document_vars, probe, now, crud_users,
                       crud_sessions, registering>>
        /\ IF user_id \notin DOMAIN accounts
           THEN /\ response' = Returned("change_password", [ok |-> FALSE])
                /\ accounts' = accounts
           ELSE IF ~pwd_context_verify(old_password,
                                       accounts[user_id].hashed_password)
           THEN /\ response' = Returned("change_password", [ok |-> FALSE])
                /\ accounts' = accounts
           ELSE /\ accounts' = updated.accounts
                /\ response' = Returned("change_password",
                                        [ok |-> updated.found])

-----------------------------------------------------------------------------
(* The read routes of routers/upload.py.  A 200 response is recorded by    *)
(* the keys of the objects it carries and by the extracted content they    *)
(* carry under the key content.  DocumentOperations.get_document also      *)
(* stamps last_accessed, a field outside the record modelled here.         *)

DocumentResponseFields ==
    {"id", "filename", "original_filename", "file_type", "file_size",
     "status", "upload_date", "processed_date", "metadata", "tags", "notes",
     "is_favorite"}

DocumentAnalyticsFields ==
    {"document_id", "reading_time_minutes", "complexity_score",
     "readability_score", "topic_distribution", "citation_network",
     "key_concepts", "summary_views", "download_count"}

\* DocumentResponse(id=doc.id, ...): the declared fields of the record.
DocumentResponse(id, doc) ==
    Restrict([id |-> id] @@ doc, DocumentResponseFields)

Sent(op, bodies) ==
    Reply(op, 200, None)
    @@ [keys |-> UNION {DOMAIN b : b \in bodies},
        content |-> {b.content : b \in {x \in bodies : "content" \in DOMAIN x}}]

ReadOnly ==
    UNCHANGED <<login_vars, limit_vars, probe, files, documents, tasks, users, now, uploads, deletes,
                ever_ready>>

\* get_document_content without the test of the status.
get_content_any_status(document_id, user) ==
    /\ response' =
         IF document_id \notin DOMAIN documents
         THEN Reply("content", 404, "Document not found")
         ELSE IF access_denied(documents, document_id, user)
         THEN Reply("content", 403, "Access denied")
         ELSE Sent("content",
                   {[document_id |-> document_id,
                     content |-> documents[document_id].content,
                     metadata |-> None]})
    /\ ReadOnly

\* GET /upload/{id}/content
get_document_content(document_id, user) ==
    /\ response' =
         IF document_id \notin DOMAIN documents
         THEN Reply("content", 404, "Document not found")
         ELSE IF access_denied(documents, document_id, user)
         THEN Reply("content", 403, "Access denied")
         ELSE IF documents[document_id].status # READY
         THEN Reply("content", 400, documents[document_id].status)
         ELSE Sent("content",
                   {[document_id |-> document_id,
                     content |-> documents[document_id].content,
                     metadata |-> None]})
    /\ ReadOnly

\* GET /upload/{id}
get_document(document_id, user) ==
    /\ response' =
         IF document_id \notin DOMAIN documents
         THEN Reply("get", 404, "Document not found")
         ELSE IF access_denied(documents, document_id, user)
         THEN Reply("get", 403, "Access denied")
         ELSE Sent("get",
                   {DocumentResponse(document_id, documents[document_id])})
    /\ ReadOnly

\* GET /upload/{id}/download : the original file, whatever the status.
download_document(document_id, user) ==
    /\ response' =
         IF document_id \notin DOMAIN documents
         THEN Reply("download", 404, "Document not found")
         ELSE IF access_denied(documents, document_id, user)
         THEN Reply("download", 403, "Access denied")
         ELSE IF documents[document_id].file_path \notin DOMAIN files
         THEN Reply("download", 404, "File not found")
         ELSE Sent("download", {[file |-> None]})
    /\ ReadOnly

\* POST /upload/{id}/similar : an empty list once the checks pass.
find_similar_documents(document_id, user) ==
    /\ response' =
         IF document_id \notin DOMAIN documents
         THEN Reply("similar", 404, "Document not found")
         ELSE IF access_denied(documents, document_id, user)
         THEN Reply("similar", 403, "Access denied")
         ELSE Sent("similar", {})
    /\ ReadOnly

\* GET /upload/{id}/analytics
get_document_analytics(document_id, user) ==
    /\ response' =
         IF document_id \notin DOMAIN documents
         THEN Reply("analytics", 404, "Document not found")
         ELSE IF access_denied(documents, document_id, user)
         THEN Reply("analytics", 403, "Access denied")
         ELSE Sent("analytics", {[k \in DocumentAnalyticsFields |-> None]})
    /\ ReadOnly

\* DocumentOperations.get_user_documents: the caller's records, filtered by
\* status when one is given; skip and limit cut one page out of them.
Pages == 1..2

page_size == 10

get_user_documents(docs, user_id, page, status) ==
    LET found == {d \in DOMAIN docs :
                     /\ docs[d].user_id = user_id
                     /\ status # None => docs[d].status = status}
    IN  IF (page - 1) * page_size < Cardinality(found) THEN found ELSE {}

\* GET /upload/
list_documents(page, status, user) ==
    /\ response' =
         Sent("list",
              {DocumentResponse(d, documents[d]) :
                 d \in get_user_documents(documents, user, page, status)})
    /\ ReadOnly

\* POST /upload/search : the caller's records the text index matches.
search_documents(hits, user) ==
    /\ hits \subseteq {d \in DOMAIN documents : documents[d].user_id = user}
    /\ response' =
         Sent("search", {DocumentResponse(d, documents[d]) : d \in hits})
    /\ ReadOnly

-----------------------------------------------------------------------------
(* Specifications.                                                         *)

\* The whole service, uploads drawn from a small set of requests.
\* the AI call failing, and the AI filling every field
LifecycleReplies ==
    {r \in AIReplies :
        (r.title = None) = (r.abstract = None)
        /\ (r.title = None) = (r.keywords = <<>>)
        /\ (r.title = None) = (r.main_topics = <<>>)}

LifecycleNames == { <<"a", ".", "p", "d", "f">>, <<"a", ".", "e", "x", "e">> }

Next ==
    \/ Tick
    \/ \E f \in LifecycleNames, b \in SeedBlobs :
          upload_document(SeedOwner, f, b, TRUE)
    \/ \E d \in DocIds, ai_ok \in BOOLEAN, ai \in LifecycleReplies :
          process_document_background_extract(d, ai_ok, ai)
    \/ \E d \in DocIds, db_ok \in BOOLEAN :
          process_document_background_ready(d, db_ok)
    \/ \E d \in DocIds, db_ok \in BOOLEAN :
          process_document_background_failed(d, db_ok)
    \/ \E d \in DocIds, body \in PatchBodies, u \in Users :
          route_update_document(d, body, u)
    \/ \E d \in DocIds, u \in Users : route_delete_document(d, u)

Spec == Init /\ [][Next]_vars

\* The upload route alone, over every filename and blob.
NextIngest ==
    \/ Tick
    \/ \E u \in Users, f \in Filenames, b \in Blobs, io_ok \in BOOLEAN :
          upload_document(u, f, b, io_ok)

SpecIngest == Init /\ [][NextIngest]_vars

\* The scheduler runs every task it was handed: each step of the task is
\* taken once it is enabled.
FairSpec ==
    /\ Spec
    /\ WF_vars(\E d \in DocIds, ai_ok \in BOOLEAN, ai \in LifecycleReplies :
                   process_document_background_extract(d, ai_ok, ai))
    /\ WF_vars(\E d \in DocIds, db_ok \in BOOLEAN :
                   process_document_background_ready(d, db_ok))
    /\ WF_vars(\E d \in DocIds, db_ok \in BOOLEAN :
                   process_document_background_failed(d, db_ok))

\* The per-document routes and the extraction task against one another,
\* within one second of the clock.
NextRead ==
    \/ \E d \in DocIds, ai_ok \in BOOLEAN, ai \in LifecycleReplies :
          process_document_background_extract(d, ai_ok, ai)
    \/ \E d \in DocIds, db_ok \in BOOLEAN :
          process_document_background_ready(d, db_ok)
    \/ \E d \in DocIds, db_ok \in BOOLEAN :
          process_document_background_failed(d, db_ok)
    \/ \E d \in DocIds, body \in PatchBodies, u \in Users :
          route_update_document(d, body, u)
    \/ \E d \in DocIds, u \in Users : route_delete_document(d, u)
    \/ \E d \in DocIds, u \in Users : get_document(d, u)
    \/ \E d \in DocIds, u \in Users : get_document_content(d, u)
    \/ \E d \in DocIds, u \in Users : download_document(d, u)
    \/ \E d \in DocIds, u \in Users : find_similar_documents(d, u)
    \/ \E d \in DocIds, u \in Users : get_document_analytics(d, u)
    \/ \E page \in Pages, st \in DocumentStatus \cup {None}, u \in Users :
          list_documents(page, st, u)
    \/ \E hits \in SUBSET DocIds, u \in Users : search_documents(hits, u)

SpecRead == Init /\ [][NextRead]_vars

\* Extraction alone, over files of every type whose texts have and lack a
\* title line and an abstract, and over every answer of the AI.  The store
\* holds one record whose file was stored in the current second and whose
\* task is pending.
ExtractBlobs == {[len |-> 2048, body |-> t] : t \in ExtractTexts}

ExtractNames == {f \in Filenames : lower(suffix(f)) \in allowed_extensions}

InitExtract ==
    \E f \in ExtractNames, b \in ExtractBlobs :
       LET saved == save_uploaded_file(<<>>, 1, b, f, SeedOwner, TRUE)
       IN  /\ files = saved.files
           /\ documents =
                [d \in {"d1"} |->
                   DocumentInDB([filename |-> saved.file_path.name,
                                 original_filename |-> f,
                                 file_type |-> saved.doc_type,
                                 file_size |-> b.len,
                                 content_hash |-> saved.content_hash,
                                 user_id |-> SeedOwner,
                                 file_path |-> saved.file_path]).record]
           /\ tasks = [d \in {"d1"} |->
                         NewTask(saved.file_path, saved.doc_type)]
           /\ users = [u \in Users |->
                         [documents_uploaded |->
                              IF u = SeedOwner THEN 1 ELSE 0,
                          storage_used_mb |-> 0]]
           /\ now = 1
           /\ uploads = 0
           /\ deletes = 0
           /\ ever_ready = {}
           /\ response = [op |-> None, code |-> 0, detail |-> None]
           /\ probe = NoCall
           /\ NoLogins

\* process_document_background called once more for a document whose run
\* has ended in READY.
rerun_extraction(d) ==
    /\ d \in DOMAIN tasks
    /\ tasks[d].pc = "done"
    /\ documents[d].status = READY
    /\ tasks' = [tasks EXCEPT ![d] = NewTask(@.file_path, @.doc_type)]
    /\ UNCHANGED <<login_vars, limit_vars, probe, files, documents, users, now, uploads, deletes,
                   ever_ready, response>>

NextExtract ==
    \/ \E d \in DocIds, ai_ok \in BOOLEAN, ai \in AIReplies :
          process_document_background_extract(d, ai_ok, ai)
    \/ \E d \in DocIds, db_ok \in BOOLEAN :
          process_document_background_ready(d, db_ok)
    \/ \E d \in DocIds, db_ok \in BOOLEAN :
          process_document_background_failed(d, db_ok)
    \/ \E d \in DocIds : rerun_extraction(d)

SpecExtract == InitExtract /\ [][NextExtract]_vars

\* Uploads arriving while a record's file, stored in the current second,
\* is in the folder.
NextStored ==
    \/ Tick
    \/ \E u \in Users, f \in ExtractNames, b \in ExtractBlobs,
          io_ok \in BOOLEAN :
          upload_document(u, f, b, io_ok)

SpecStored == InitExtract /\ [][NextStored]_vars

\* Batch uploads: up to MaxBatch files drawn from three readable files of
\* different names, a file of a type that is not allowed and a file whose
\* disk write fails, and one batch of six files.
MaxBatch == 3

Batches ==
    LET readable(f, ok) ==
            [filename |-> f, file_content |-> [len |-> 1024, body |-> "text"],
             io_ok |-> ok]
        batch_files ==
            {readable(f, TRUE) :
                f \in { <<"a", ".", "p", "d", "f">>, <<"A", ".", "T", "X", "T">>,
                        <<"a", ".", "e", "x", "e">> }}
            \cup {readable(<<"a", ".", "d", "o", "c", "x">>, ok) :
                    ok \in BOOLEAN}
    IN  UNION { [1..n -> batch_files] : n \in 0..MaxBatch }
        \cup {[i \in 1..6 |-> readable(<<"a", ".", "p", "d", "f">>, TRUE)]}

NextBatch ==
    \/ Tick
    \/ \E u \in Users, batch \in Batches : upload_documents_batch(u, batch)

SpecBatch == Init /\ [][NextBatch]_vars

\* FileService._is_section_header called on its own, on every line of one
\* to four of these tokens, bare or padded with blanks.
HeaderTokens ==
    {"2.", "12", "Methodology", "RESULTS", "Work", "the", "approach."}

MaxTokens == 4

HeaderLines ==
    LET bare == UNION { {str_join(ts, " ") : ts \in [1..n -> HeaderTokens]} :
                        n \in 1..MaxTokens }
    IN  bare \cup {"  " \o l \o " " : l \in {x \in bare : Len(words(x)) = 1}}

InitHeader ==
    /\ files = <<>>
    /\ documents = <<>>
    /\ tasks = <<>>
    /\ users = [u \in Users |->
                  [documents_uploaded |-> 0, storage_used_mb |-> 0]]
    /\ now = 1
    /\ uploads = 0
    /\ deletes = 0
    /\ ever_ready = {}
    /\ response = [op |-> None, code |-> 0, detail |-> None]
    /\ NoLogins
    /\ \E line \in HeaderLines :
          probe = Call("_is_section_header", line, FALSE, FALSE)

call_is_section_header ==
    /\ probe.fn = "_is_section_header"
    /\ ~probe.returned
    /\ probe' = [probe EXCEPT !.returned = TRUE,
                              !.value = _is_section_header(probe.arg)]
    /\ UNCHANGED <<login_vars, limit_vars, document_vars, now, response>>

NextHeader == call_is_section_header

SpecHeader == InitHeader /\ [][NextHeader]_vars

\* FileService._extract_abstract called on its own: contents with and
\* without a title line, the word abstract in three spellings, an abstract
\* of 45 to 55 characters and what follows it, and abstracts of 299 to 302
\* words.
AbstractContents ==
    LET filler ==
            "This paper surveys learning methods for summarization-tools"
        bodies == {SubSeq(filler, 1, n) : n \in 45..55}
        long == {str_join([i \in 1..n |-> "w"], " ") : n \in 299..302}
    IN  {lead \o word \o body \o tail :
            lead \in {"", "Deep Learning Survey\n"},
            word \in {"Abstract", "ABSTRACT\n", "abstract: "},
            body \in bodies,
            tail \in {"", "\nIntroduction\nbody", "\nKeywords: learning",
                      "\n\n\n\nbody text"}}
        \cup {"Abstract\n" \o body \o "\nIntroduction\nbody" : body \in long}
        \cup {"Deep Learning Survey\nno summary here"}

InitAbstract ==
    /\ files = <<>>
    /\ documents = <<>>
    /\ tasks = <<>>
    /\ users = [u \in Users |->
                  [documents_uploaded |-> 0, storage_used_mb |-> 0]]
    /\ now = 1
    /\ uploads = 0
    /\ deletes = 0
    /\ ever_ready = {}
    /\ response = [op |-> None, code |-> 0, detail |-> None]
    /\ NoLogins
    /\ \E content \in AbstractContents :
          probe = Call("_extract_abstract", content, FALSE, FALSE)

call_extract_abstract ==
    /\ probe.fn = "_extract_abstract"
    /\ ~probe.returned
    /\ probe' = [probe EXCEPT !.returned = TRUE,
                              !.value = _extract_abstract(probe.arg)]
    /\ UNCHANGED <<login_vars, limit_vars, document_vars, now, response>>

SpecAbstract == InitAbstract /\ [][call_extract_abstract]_vars

\* The PDF and DOCX extractors called on their own.  A PDF of one to
\* MaxPages pages that pdfplumber reads, or fails to read at one of its
\* pages; a DOCX of one to MaxParagraphs paragraphs.  The texts have lines
\* before the first header, headers followed by text, by another header
\* and by nothing.
MaxPages == 3

MaxParagraphs == 3

PdfTexts ==
    LET pages == {"Preface words\nIntroduction\nbody one",
                  "Methods\nResults\nbody two",
                  "more body text",
                  "Conclusion"}
    IN  UNION { {str_join(ps, "\f") : ps \in [1..n -> pages]} :
                n \in 1..MaxPages }

DocxTexts ==
    LET paragraphs == {"#Introduction", "body one", "# Methods ",
                       "more body text", "   "}
    IN  UNION { {str_join(ps, "\n") : ps \in [1..n -> paragraphs]} :
                n \in 1..MaxParagraphs }

InitSections ==
    /\ files = <<>>
    /\ documents = <<>>
    /\ tasks = <<>>
    /\ users = [u \in Users |->
                  [documents_uploaded |-> 0, storage_used_mb |-> 0]]
    /\ now = 1
    /\ uploads = 0
    /\ deletes = 0
    /\ ever_ready = {}
    /\ response = [op |-> None, code |-> 0, detail |-> None]
    /\ NoLogins
    /\ \/ \E text \in PdfTexts :
            \E fail_at \in 0..Len(str_split(text, "\f")) :
               probe = Call("_extract_from_pdf",
                            [text |-> text, fail_at |-> fail_at],
                            FALSE, FALSE)
       \/ \E text \in DocxTexts :
            probe = Call("_extract_from_docx", [text |-> text], FALSE, FALSE)

call_extract_from_pdf ==
    /\ probe.fn = "_extract_from_pdf"
    /\ ~probe.returned
    /\ probe' = [probe EXCEPT
                   !.returned = TRUE,
                   !.value = _extract_from_pdf(probe.arg.text,
                                               probe.arg.fail_at)]
    /\ UNCHANGED <<login_vars, limit_vars, document_vars, now, response>>

call_extract_from_docx ==
    /\ probe.fn = "_extract_from_docx"
    /\ ~probe.returned
    /\ probe' = [probe EXCEPT !.returned = TRUE,
                              !.value = _extract_from_docx(probe.arg.text)]
    /\ UNCHANGED <<login_vars, limit_vars, document_vars, now, response>>

NextSections ==
    \/ call_extract_from_pdf
    \/ call_extract_from_docx

SpecSections == InitSections /\ [][NextSections]_vars

\* Requests of two clients to a counted and an exempt path, while the
\* clock runs.
InitLimit ==
    /\ files = <<>>
    /\ documents = <<>>
    /\ tasks = <<>>
    /\ users = [u \in Users |->
                  [documents_uploaded |-> 0, storage_used_mb |-> 0]]
    /\ now = 1
    /\ uploads = 0
    /\ deletes = 0
    /\ ever_ready = {}
    /\ response = [op |-> None, code |-> 0, detail |-> None]
    /\ probe = NoCall
    /\ NoLogins

NextLimit ==
    \/ sleep
    \/ \E ip \in {"10.0.0.1", "10.0.0.2"}, path \in {"/health", "/upload/"} :
          rate_limit_middleware(ip, path)

SpecLimit == InitLimit /\ [][NextLimit]_vars

\* AuthManager: registrations, logins and sessions, which the passing of
\* expiration_hours ends.
NextSession ==
    \/ expiration_passes
    \/ \E r \in Requests, u \in Usernames, e \in Emails :
          auth_register_user(r, u, e, "Passw0rd1")
    \/ \E r \in Requests : auth_register_user_email(r)
    \/ \E r \in Requests : auth_register_user_create(r)
    \/ \E u \in Usernames \cup Emails, p \in Passwords :
          auth_authenticate_user(u, p)
    \/ \E id \in AccountIds, t \in {"t1", "t2"} : create_user_session(id, t)
    \/ \E t \in {"t1", "t2"} : validate_session(t)
    \/ \E t \in {"t1", "t2"} : logout_user(t)

SpecSession == InitLimit /\ [][NextSession]_vars

\* Registrations through both implementations, two at a time, and the
\* password changes of UserService.
NextAccounts ==
    \/ \E r \in Requests, u \in Usernames, e \in Emails :
          service_register_user(r, [username |-> u, email |-> e,
                                    password |-> "Passw0rd1"])
    \/ \E r \in Requests : service_register_user_username(r)
    \/ \E r \in Requests : service_register_user_create(r)
    \/ \E r \in Requests, u \in Usernames, e \in Emails :
          auth_register_user(r, u, e, "Passw0rd1")
    \/ \E r \in Requests : auth_register_user_email(r)
    \/ \E r \in Requests : auth_register_user_create(r)
    \/ \E id \in AccountIds, old \in Passwords, new \in Passwords :
          change_password(id, old, new)

SpecAccounts == InitLimit /\ [][NextAccounts]_vars

TypeOK ==
    /\ now \in 1..MaxTime
    /\ uploads \in 0..MaxUploads
    /\ deletes \in 0..MaxDeletes
    /\ DOMAIN documents \subseteq DocIds
    /\ DOMAIN tasks \subseteq DOMAIN documents
    /\ \A d \in DOMAIN documents : documents[d].status \in DocumentStatus

-----------------------------------------------------------------------------
(* Properties.                                                             *)

Status(docs, d) == docs[d].status

TaskStep(d) == d \in DOMAIN tasks /\ tasks'[d] # tasks[d]

\* C1: once a document's status is DELETED, no later write (of the
\* extraction task or of PATCH) changes it.
C1_DeletedIsTerminal ==
    [][\A d \in DOMAIN documents :
          Status(documents, d) = DELETED => Status(documents', d) = DELETED]_vars

\* C2: apart from the move to DELETED, a status that is READY or FAILED
\* never changes: not back to UPLOADING or PROCESSING, not READY to FAILED,
\* not FAILED to READY.
C2_StatusMonotonic ==
    [][\A d \in DOMAIN documents :
          Status(documents, d) \in {READY, FAILED} =>
              Status(documents', d) \in {Status(documents, d), DELETED}]_vars

\* C3: when the extraction task has raised an exception and its handler has
\* written the failure, the record has status FAILED and a non-empty
\* error_message equal to the stringified exception.
C3_FailureRecorded ==
    [][\A d \in DOMAIN tasks :
          (tasks[d].pc = "except" /\ tasks'[d].pc = "done") =>
              /\ Status(documents', d) = FAILED
              /\ documents'[d].error_message # None
              /\ documents'[d].error_message = tasks[d].exc]_vars

\* C4: a document's processed_date is set if and only if its status has
\* been READY at least once.
C4_ProcessedDateIffEverReady ==
    \A d \in DOMAIN documents :
        (documents[d].processed_date # NoDate) <=> (d \in ever_ready)

\* C4 witness: a document that was READY, is no longer READY, and still
\* carries its processed_date.
C4_Witness ==
    \E d \in DOMAIN documents :
        /\ d \in ever_ready
        /\ Status(documents, d) \in {DELETED, UPLOADING}
        /\ documents[d].processed_date # NoDate

\* C5: under fair scheduling of the task, every document leaves UPLOADING
\* and reaches READY or FAILED, unless it is deleted.
C5_EventuallyProcessed ==
    \A d \in DocIds :
        <>(\/ d \notin DOMAIN documents
           \/ Status(documents, d) \in {READY, FAILED, DELETED})

\* C6: no step of the extraction task changes a status directly from
\* UPLOADING to READY or FAILED; PROCESSING is written first.
C6_ProcessingFirst ==
    [][\A d \in DOMAIN tasks :
          (TaskStep(d) /\ Status(documents, d) = UPLOADING) =>
              Status(documents', d) \notin {READY, FAILED}]_vars

\* The request of an upload step.
AllowedType(f) == lower(suffix(f)) \in allowed_extensions

\* C7: an upload of an allowed type and size whose file is stored answers
\* 201 with status UPLOADING, having created a record in UPLOADING with
\* null content and scheduled that record's extraction task.
C7_UploadCreatesRecord ==
    [][\A u \in Users, f \in Filenames, b \in Blobs :
          (/\ AllowedType(f)
           /\ b.len <= validator_max_size
           /\ upload_document(u, f, b, TRUE)) =>
              /\ response'.code = 201
              /\ response'.detail = UPLOADING
              /\ \E d \in (DOMAIN documents') \ (DOMAIN documents) :
                    /\ Status(documents', d) = UPLOADING
                    /\ documents'[d].content = None
                    /\ d \in DOMAIN tasks']_vars

\* C8: an upload whose filename has a lower-cased extension outside the
\* allowed set is answered with a client error and writes no file, creates
\* no record and schedules no task.
C8_DisallowedTypeRejected ==
    [][\A u \in Users, f \in Filenames, b \in Blobs, io_ok \in BOOLEAN :
          (~AllowedType(f) /\ upload_document(u, f, b, io_ok)) =>
              /\ response'.code = 400
              /\ files' = files
              /\ documents' = documents
              /\ tasks' = tasks]_vars

\* C8 witness: an upload has been refused for its file type.
C8_Witness ==
    /\ response.op = "upload"
    /\ response.code = 400
    /\ response.detail = "ValueError: File type not allowed"
    /\ uploads = 1

\* C9: an upload of an allowed type is accepted (stored, with a record in
\* UPLOADING) exactly when its length is at most max_upload_size.
C9_SizeBoundary ==
    [][\A u \in Users, f \in Filenames, b \in Blobs :
          (/\ AllowedType(f)
           /\ b.len \in {max_upload_size, max_upload_size + 1}
           /\ upload_document(u, f, b, TRUE)) =>
              IF b.len <= max_upload_size
              THEN /\ files' # files
                   /\ \E d \in (DOMAIN documents') \ (DOMAIN documents) :
                         Status(documents', d) = UPLOADING
              ELSE /\ response'.code = 400
                   /\ files' = files]_vars

\* C10: an upload rejected for its size, by the file service or by the
\* file_size validator, leaves no stored file and no record.
C10_SizeRejectionLeavesNothing ==
    [][\A u \in Users, f \in Filenames, b \in Blobs, io_ok \in BOOLEAN :
          (/\ AllowedType(f)
           /\ (b.len > max_upload_size \/ ~validate_file_size(b.len))
           /\ upload_document(u, f, b, io_ok)) =>
              /\ files' = files
              /\ documents' = documents]_vars

\* C11: get_document_content answers a document that is not READY with an
\* error carrying no content, and the responses of get_document,
\* list_documents and search_documents never have a content key.
C11_ContentOnlyWhenReady ==
    [][/\ \A d \in DOMAIN documents, u \in Users :
            get_document_content(d, u) /\ Status(documents, d) # READY
               => /\ response'.code \in {400, 403}
                  /\ "content" \notin DOMAIN response'
       /\ response'.op \in {"get", "list", "search"}
             /\ "keys" \in DOMAIN response'
               => "content" \notin response'.keys /\ response'.content = {}
      ]_vars

\* a document whose content is stored but that is not READY was refused
C11_Witness ==
    /\ response.op = "content"
    /\ response.code = 400
    /\ \E d \in DOMAIN documents :
          documents[d].content = "text" /\ documents[d].status # READY

\* C12: a per-document request of a user who neither owns the document
\* nor is an admin is answered 403 or 404 and leaves the document's status,
\* content, metadata, tags and notes as they were.
C12_ForeignRequestRejected ==
    [][\A d \in DOMAIN documents, u \in Users :
          /\ documents[d].user_id # u
          /\ role[u] # "admin"
          /\ \/ get_document(d, u)
             \/ get_document_content(d, u)
             \/ download_document(d, u)
             \/ find_similar_documents(d, u)
             \/ get_document_analytics(d, u)
             \/ \E body \in PatchBodies : route_update_document(d, body, u)
             \/ route_delete_document(d, u)
          => /\ response'.code \in {403, 404}
             /\ d \in DOMAIN documents'
             /\ \A k \in {"status", "content", "metadata", "tags", "notes"} :
                   documents'[d][k] = documents[d][k]
      ]_vars

\* a PATCH on a finished document was refused
C12_Witness ==
    /\ response.op = "update"
    /\ response.code = 403
    /\ \E d \in DOMAIN documents :
          documents[d].status = READY /\ documents[d].content = "text"

\* C13: a run of the extraction task that fails writes neither content nor
\* metadata: every step of the task other than its successful READY write
\* leaves both as they were, and the handler's write marks the document
\* FAILED, so content that was None before the run is None after it.
C13_FailedRunWritesNoData ==
    [][\A d \in DOMAIN documents :
          /\ TaskStep(d) /\ ~(tasks[d].pc = "update" /\ tasks'[d].pc = "done")
                => /\ documents'[d].content = documents[d].content
                   /\ documents'[d].metadata = documents[d].metadata
          /\ TaskStep(d) /\ tasks[d].pc = "except" /\ tasks'[d].pc = "done"
                => Status(documents', d) = FAILED
      ]_vars

\* the run had extracted a text, failed at its write, and the FAILED record
\* holds neither the text nor its metadata
C13_Witness ==
    \E d \in DOMAIN tasks :
       /\ tasks[d].pc = "done"
       /\ tasks[d].exc = "DatabaseError"
       /\ tasks[d].content = "text"
       /\ tasks[d].metadata # DocumentMetadata
       /\ Status(documents, d) = FAILED
       /\ documents[d].content = None
       /\ documents[d].metadata = DocumentMetadata

\* C14: the AI merge of the extraction task never replaces a title, an
\* abstract or keywords that format extraction populated; a field whose
\* value the merge changed was empty after extraction, and total_words is
\* never touched.
C14_FillIfEmpty ==
    [][\A d \in DOMAIN tasks :
          tasks[d].pc = "scheduled" /\ tasks'[d].pc = "update"
             => LET extracted ==
                        extract_text_content(files, tasks[d].file_path,
                                             tasks[d].doc_type).metadata
                    merged == tasks'[d].metadata
                IN  /\ \A k \in {"title", "abstract"} :
                          ~falsy(extracted[k]) => merged[k] = extracted[k]
                    /\ \A k \in {"keywords", "main_topics", "key_findings"} :
                          extracted[k] # <<>> => merged[k] = extracted[k]
                    /\ merged.total_words = extracted.total_words
      ]_vars

\* the AI was asked (it supplied the abstract) and offered a title, and the
\* title of the file was kept
C14_Witness ==
    \E d \in DOMAIN tasks :
       /\ tasks[d].pc = "update"
       /\ tasks[d].metadata.abstract = "AI abstract"
       /\ tasks[d].metadata.keywords = <<"ai">>
       /\ tasks[d].metadata.title = "Short"

\* C15: an upload whose file the file service stores gets a storage path
\* that no document record references, so that it overwrites no file owned
\* by another document, also when user, name and bytes are the same.
C15_StoragePathsDiffer ==
    [][\A u \in Users, f \in ExtractNames, b \in ExtractBlobs :
          LET saved == save_uploaded_file(files, now, b, f, u, TRUE)
          IN  upload_document(u, f, b, TRUE) /\ saved.exc = None
                 => \A d \in DOMAIN documents :
                       documents[d].file_path # saved.file_path
      ]_vars

C17_RerunIdempotent ==
    [][\A d \in DOMAIN documents :
          /\ Status(documents, d) = READY
          /\ TaskStep(d)
          /\ tasks[d].pc = "update"
          /\ tasks'[d].pc = "done"
          => /\ Status(documents', d) = READY
             /\ documents'[d].metadata.title = documents[d].metadata.title
             /\ documents'[d].metadata.total_words =
                   documents[d].metadata.total_words
      ]_vars

\* C18: _is_section_header returns true for a line of at most 3 tokens
\* that contains one of the ten vocabulary words in any letter case, and
\* false for a line of more than 3 tokens whose text before the first
\* period is not all digits.
C18_KeywordHeader ==
    LET line == str_strip(probe.arg)
        short == Len(words(line)) <= 3
        has_word == \E w \in section_keywords : contains(str_lower(line), w)
        numbered == isdigit(str_split(line, ".")[1])
    IN  probe.fn = "_is_section_header" /\ probe.returned
           => /\ short /\ has_word => probe.value = TRUE
              /\ ~short /\ ~numbered => probe.value = FALSE

\* "2. Methodology" was classified, as a header
C18_Witness ==
    probe = Call("_is_section_header", "2. Methodology", TRUE, TRUE)

\* C19: _is_section_header returns true for every line whose text before
\* its first period consists only of digits, whatever the number of its
\* tokens and whether or not it contains a vocabulary word.
C19_NumberedHeader ==
    LET line == str_strip(probe.arg)
        numbered == contains(line, ".") /\ isdigit(str_split(line, ".")[1])
    IN  probe.fn = "_is_section_header" /\ probe.returned /\ numbered
           => probe.value = TRUE

\* C20: for a TXT file the title that extraction yields is the first
\* non-empty line of the file, also when the file starts with blank lines.
C20_TxtTitleIsFirstNonEmptyLine ==
    [][\A d \in DOMAIN tasks :
          /\ tasks[d].doc_type = <<"t", "x", "t">>
          /\ tasks[d].pc = "scheduled"
          /\ tasks'[d].pc = "update"
          => LET text == files[tasks[d].file_path].body
                 lines == str_split(text, "\n")
                 full == {i \in 1..Len(lines) : lines[i] # ""}
                 first == CHOOSE i \in full : \A j \in full : i <= j
                 extracted ==
                     extract_text_content(files, tasks[d].file_path,
                                          tasks[d].doc_type).metadata
             IN  full # {} => extracted.title = str_strip(lines[first])
      ]_vars

-----------------------------------------------------------------------------
\* C27: every document whose status is READY has extracted content that is
\* not null, after any sequence of uploads, extraction steps and PATCH
\* updates, so the routes that test only the status (create_summary,
\* answer_question) never hand a null content to the AI service.
C27_ReadyHasContent ==
    \A d \in DOMAIN documents :
        documents[d].status = READY => documents[d].content # None

\* bytes of the documents of one user that are not DELETED
RECURSIVE SizeOf(_, _)
SizeOf(docs, ids) ==
    IF ids = {} THEN 0
    ELSE LET d == CHOOSE x \in ids : TRUE
         IN  docs[d].file_size + SizeOf(docs, ids \ {d})

StoredSize(docs, u) ==
    SizeOf(docs, {d \in DOMAIN docs :
                     docs[d].user_id = u /\ docs[d].status # DELETED})

\* C28: for every user storage_used_mb is never negative and follows the
\* total size of that user's documents that are not DELETED: every step
\* changes the counter by exactly the change of that total, and a delete of
\* a document that is already DELETED changes neither.
C28_StorageFollowsDocuments ==
    [][\A u \in Users :
          /\ users'[u].storage_used_mb >= 0
          /\ users'[u].storage_used_mb - users[u].storage_used_mb
               = StoredSize(documents', u) - StoredSize(documents, u)]_vars

\* C23: for a content that has an abstract, _extract_abstract returns None
\* exactly when the bounded abstract text has fewer than 50 characters (a
\* text of exactly 50 characters is returned); a text of at most 300 words
\* is returned as it is, and a longer one as its first 300 words followed
\* by the ellipsis.
C23_AbstractBoundary ==
    LET text == bounded_abstract(probe.arg)
        first300 == str_join(SubSeq(words(text), 1, 300), " ")
    IN  (probe.fn = "_extract_abstract" /\ probe.returned /\ text # None) =>
           /\ (probe.value = None) <=> (Len(text) < 50)
           /\ probe.value # None =>
                /\ Len(words(probe.value)) <= 300
                /\ probe.value = IF Len(words(text)) > 300
                                 THEN first300 \o "..."
                                 ELSE text

\* the lines the section loop of an extractor call walks
WalkedLines(call) ==
    IF call.fn = "_extract_from_docx" THEN paragraph_lines(call.arg.text)
    ELSE LET pages == str_split(call.arg.text, "\f")
         IN  Flatten([p \in 1..Len(pages) |-> page_lines(pages[p], p - 1)])

\* one section per header, with the lines up to the next header as body
OpenedSections(lines) ==
    LET heads == Sorted({i \in 1..Len(lines) : lines[i].header})
        next(n) == IF n = Len(heads) THEN Len(lines) + 1 ELSE heads[n + 1]
    IN  [n \in 1..Len(heads) |->
            [title |-> lines[heads[n]].title,
             content |-> str_join([i \in 1..(next(n) - heads[n] - 1) |->
                                      lines[heads[n] + i].text], "\n")]]

\* C22: when the PDF or DOCX traversal runs to the end, metadata.sections
\* holds one section per detected header, in document order, with the
\* header as title and the lines up to the next header (or the end) as
\* body, also when that body is empty; the lines before the first header
\* are in no section and remain in the full text.
C22_EveryHeaderEmitsSection ==
    LET lines == WalkedLines(probe)
        sections == probe.value.metadata.sections
        first == CHOOSE i \in 1..(Len(lines) + 1) :
                    /\ i <= Len(lines) => lines[i].header
                    /\ \A j \in 1..(i - 1) : ~lines[j].header
    IN  (/\ probe.fn \in {"_extract_from_pdf", "_extract_from_docx"}
         /\ probe.returned
         /\ probe.fn = "_extract_from_pdf" => probe.arg.fail_at = 0) =>
           /\ [n \in 1..Len(sections) |->
                  [title |-> sections[n].title,
                   content |-> sections[n].content]]
                = OpenedSections(lines)
           /\ \A j \in 1..(first - 1) :
                 contains(probe.value.content, lines[j].text)

\* C24: when pdfplumber fails at a page and PyPDF2 reads the file, the
\* result has total_pages equal to the number of pages, a full text that
\* is the pages' texts once each in page order, and none of the sections
\* collected before the failure.
C24_FallbackStartsAfresh ==
    LET pages == str_split(probe.arg.text, "\f")
    IN  (/\ probe.fn = "_extract_from_pdf"
         /\ probe.returned
         /\ probe.arg.fail_at > 0) =>
           /\ probe.value.metadata.total_pages = Len(pages)
           /\ probe.value.content = str_join(pages, "\n\n")
           /\ probe.value.metadata.sections = <<>>

\* a file of a batch that nothing gives a reason to refuse
Accepted(file) ==
    /\ AllowedType(file.filename)
    /\ file.file_content.len <= validator_max_size
    /\ file.io_ok

\* C25: a batch of at most 5 files is handled file by file: every file
\* that has no failure of its own is stored, gets a new record in
\* UPLOADING with a scheduled task and is listed in the response, in input
\* order; a file that fails adds no record and no task and does not stop
\* the files after it.
C25_BatchIsolatesFailures ==
    [][\A u \in Users, batch \in Batches :
          (Len(batch) <= 5 /\ upload_documents_batch(u, batch)) =>
             LET good == SelectSeq(batch, Accepted)
                 path(file) ==
                     save_uploaded_file(<<>>, now, file.file_content,
                                        file.filename, u, TRUE).file_path
                 new == (DOMAIN documents') \ (DOMAIN documents)
             IN  /\ Len(response'.uploaded) = Len(good)
                 /\ \A k \in 1..Len(good) :
                       /\ path(good[k]) \in DOMAIN files'
                       /\ response'.uploaded[k] \in new
                       /\ documents'[response'.uploaded[k]].file_path
                            = path(good[k])
                       /\ Status(documents', response'.uploaded[k]) = UPLOADING
                       /\ response'.uploaded[k] \in DOMAIN tasks'
                 /\ \A d \in new :
                       \E k \in 1..Len(good) : response'.uploaded[k] = d
                 /\ (DOMAIN tasks') \ (DOMAIN tasks) \subseteq new]_vars

\* counted requests of one client handed on at a time in [t, t + period)
ForwardedWithin(log, ip, t) ==
    IF ip \notin DOMAIN log THEN 0
    ELSE Cardinality({i \in 1..Len(log[ip]) :
                         t <= log[ip][i] /\ log[ip][i] < t + rate_limit_period})

\* C29: for each client IP at most rate_limit_requests counted requests
\* are handed to a handler within any interval of length
\* rate_limit_period, and a request answered with 429 is not handed on and
\* leaves the stored count as it was.
C29_AtMostLimitPerPeriod ==
    [][/\ \A ip \in DOMAIN forwarded', t \in 0..MaxClock :
             ForwardedWithin(forwarded', ip, t) <= rate_limit_requests
       /\ response'.code = 429 =>
             /\ forwarded' = forwarded
             /\ request_counts' = request_counts]_vars

\* the AuthManager registrations that have succeeded
Registered ==
    {r \in DOMAIN registering :
        registering[r].via = "AuthManager" /\ registering[r].pc = "done"}

C26_ChangedPasswordLogsIn ==
    [][\A id \in DOMAIN accounts, old \in Passwords, new \in Passwords :
          change_password(id, old, new) =>
             IF response'.value.ok
             THEN /\ service_authenticate(accounts', accounts[id].username,
                                          new).ok
                  /\ old # new =>
                       ~service_authenticate(accounts', accounts[id].username,
                                             old).ok
             ELSE accounts'[id].hashed_password
                    = accounts[id].hashed_password]_vars

\* no two records of a users collection share a username or an email
Unique(coll) ==
    \A a \in DOMAIN coll, b \in DOMAIN coll :
        a # b => /\ coll[a].username # coll[b].username
                 /\ coll[a].email # coll[b].email

\* the registrations of one implementation that have created a user
Done(via) ==
    {r \in DOMAIN registering :
        registering[r].via = via /\ registering[r].pc = "done"}

====
